---- MODULE Spec2Model ----
(***************************************************************************)
(* Pluggable curation engine (src/curation_engine_pluggable.py) and the    *)
(* LLM collaborator it calls (src/BAML_Integration_Real.py).               *)
(*                                                                         *)
(* Content is a sequence of whitespace-separated tokens.  CurationResult   *)
(* objects live in a heap and are referred to by index, so that the cache, *)
(* the strategies and the callers can share one object as Python does.     *)
(* Scores are in hundredths (0.95 is 95).  Times are in milliseconds.      *)
(***************************************************************************)
EXTENDS Integers, Sequences, FiniteSets, TLC

(* ------------------------------ bounds --------------------------------- *)

\* calls to curate_content in one behaviour
MaxCalls == 2
\* calls to switch_strategy in one behaviour
MaxSwitches == 1
\* largest elapsed time a timer reads (ms)
MaxMs == 1

(* ------------------------------ inputs --------------------------------- *)

StrategyNames == {"llm_only", "multi_layer", "hybrid"}

AgeCategories == {"UNDER_13", "UNDER_16", "UNDER_18", "ADULT"}

\* A user context is either a UserContext object (attribute access works) or
\* the plain dict the demo builds when the client library is missing.
UserContexts ==
    { [kind |-> "object", age_category |-> "UNDER_13", jurisdiction |-> "US"],
      [kind |-> "object", age_category |-> "ADULT",    jurisdiction |-> "US"],
      [kind |-> "dict",   age_category |-> "UNDER_18", jurisdiction |-> "US"] }

\* the inputs of the runs that also switch strategies
SwitchContents == { <<"Just", "lunch">>, <<"education">> }

\* what the timers of one call can read, the stage's and the engine's: a call
\* that never leaves the process may take no measurable time, a call that
\* waited for the remote analysis takes some
LocalTimings == { <<0, 0>>, <<0, MaxMs>> }

RemoteTimings == { <<MaxMs, MaxMs>> }

SwitchTimings == { <<0, MaxMs>> }

SwitchContexts ==
    { [kind |-> "object", age_category |-> "ADULT", jurisdiction |-> "US"] }

\* the inputs of the runs of a hybrid engine: the demo's lunch sentence, one
\* content for each indicator of _should_use_llm_only and each side of its
\* political count, and a profanity with and without an indicator word
LunchToday == <<"Just", "had", "a", "great", "lunch", "today">>

HybridContents ==
    { LunchToday,
      <<"education">>,
      <<"latest", "news">>,
      <<"Demo">>,
      <<"moral", "values">>,
      <<"policy">>,
      <<"government", "policy">>,
      <<"DAMN", "lunch">>,
      <<"DAMN", "test">> }

HybridContexts ==
    { [kind |-> "object", age_category |-> "ADULT",    jurisdiction |-> "US"],
      [kind |-> "object", age_category |-> "UNDER_13", jurisdiction |-> "US"] }

\* the inputs of _requires_llm_analysis called on its own: contents on each
\* side of the length and question-mark thresholds ("a*500" is one word of 500
\* letters), with and without a word of its watch list, for every age category
RequiresContents ==
    { <<>>,
      <<"Just", "lunch">>,
      <<"a*500">>,
      <<"a*499", "a">>,
      <<"a*598", "a">>,
      <<"why", "?", "?">>,
      <<"why", "?", "?", "?">>,
      <<"political">>,
      <<"controversial">>,
      <<"opinion">>,
      <<"DEBATE">>,
      <<"debated">>,
      <<"policy">>,
      <<"a*496", "?", "?">> }

RequiresContexts ==
    { [kind |-> "object", age_category |-> a, jurisdiction |-> "US"] : a \in AgeCategories }

\* every content of at most n tokens taken from the set tokens
UpTo(n, tokens) == UNION { [1..k -> tokens] : k \in 0..n }

\* longest content, in tokens, given to a layer called on its own
LayerTokens == 3

\* the demo's short-link sentence
ClickThis == <<"Click", "this:", "bit.ly/abc123">>

\* the inputs of FastFilterLayer.check called on its own: every content of up
\* to LayerTokens tokens over words of its three profanity patterns, a short
\* link and a harmless word, then the demo's sentence, the other URL patterns
\* and two near misses (a longer word, a short link with nothing after the slash)
FastContents ==
    UpTo(LayerTokens, {"DAMN", "kill", "them", "all", "bit.ly/abc123", "lunch"}) \cup
    { ClickThis, <<"pornhub.com">>, <<"xxx.com">>, <<"site.onion">>,
      <<"damned">>, <<"bit.ly/">> }

\* a content made of the words of S, each once
RECURSIVE SentenceOf(_)
SentenceOf(S) ==
    IF S = {} THEN <<>>
    ELSE LET w == CHOOSE x \in S : TRUE IN <<w>> \o SentenceOf(S \ {w})

\* the inputs of SpecializedAILayer.analyze called on its own: a content for
\* every choice of words of its two watch lists ("kills" holds kill), then a
\* word repeated, a word in upper case and a harmless sentence
SpecializedContents ==
    { SentenceOf(S) : S \in SUBSET {"hate", "kills", "stupid", "idiot", "moron", "threat",
                                     "sex", "porn", "naked", "adult", "explicit"} } \cup
    { <<"hate", "hate", "hate", "hate">>,
      <<"HATE", "kills", "stupid", "idiot">>,
      <<"Just", "lunch">> }

\* the inputs of the runs about the cache key: two contexts that differ in
\* jurisdiction only, one that differs in age category, a content that the
\* layers pass and one that the fast filter blocks
CacheContexts ==
    { [kind |-> "object", age_category |-> "UNDER_13", jurisdiction |-> "US"],
      [kind |-> "object", age_category |-> "UNDER_13", jurisdiction |-> "EU"],
      [kind |-> "object", age_category |-> "ADULT",    jurisdiction |-> "US"] }

CacheContents == { <<"Just", "lunch">>, <<"DAMN", "lunch">> }

Contents ==
    { <<"Just", "lunch">>,
      <<"DAMN", "lunch">>,
      <<"bit.ly/abc123">>,
      <<"hate", "kills", "stupid", "idiot">>,
      <<"education">> }

(* ------------------------- strings of the content ---------------------- *)

\* str.lower() on one token
Lower(t) ==
    CASE t = "DAMN" -> "damn"
      [] t = "Just" -> "just"
      [] t = "Demo" -> "demo"
      [] t = "Click" -> "click"
      [] t = "HATE" -> "hate"
      [] t = "DEBATE" -> "debate"
      [] OTHER -> t

\* the watch-list words that occur inside lower-cased token t (substring test)
WordsIn(t) ==
    CASE t = "kills"     -> {"kill"}
      [] t = "education" -> {"education"}
      [] t = "latest"    -> {"test"}
      [] t = "debated"   -> {"debate"}
      [] OTHER           -> {t}

\* `word in content.lower()`
InLower(word, content) ==
    \E i \in DOMAIN content : word \in WordsIn(Lower(content[i]))

\* number of characters of one token
CharLen(t) ==
    CASE t = "a*598"         -> 598
      [] t = "a*500"         -> 500
      [] t = "a*499"         -> 499
      [] t = "a*496"         -> 496
      [] t = "bit.ly/abc123" -> 13
      [] t = "controversial" -> 13
      [] t = "political"     -> 9
      [] t \in {"opinion", "debated"} -> 7
      [] t = "DEBATE"        -> 6
      [] t = "government"    -> 10
      [] t = "education"     -> 9
      [] t \in {"stupid", "latest", "values", "policy"} -> 6
      [] t \in {"lunch", "kills", "idiot", "great", "today", "moral"} -> 5
      [] t \in {"Just", "DAMN", "hate", "news", "Demo", "test"} -> 4
      [] t \in {"why", "had"} -> 3
      [] OTHER               -> 1

RECURSIVE SumLen(_)
SumLen(s) == IF s = <<>> THEN 0 ELSE CharLen(Head(s)) + SumLen(Tail(s))

\* len(content): the tokens and the single spaces between them
StrLen(content) ==
    IF content = <<>> THEN 0 ELSE SumLen(content) + Len(content) - 1

\* content.count('?')
CountQ(content) == Cardinality({i \in DOMAIN content : content[i] = "?"})

(* ------------------------------ results -------------------------------- *)

\* dataclass CurationResult; reason is the list of the pieces of its text
CurationResult(action, reason, confidence, safety_score, ms, strategy_used, metadata) ==
    [ action             |-> action,
      reason             |-> reason,
      confidence         |-> confidence,
      safety_score       |-> safety_score,
      processing_time_ms |-> ms,
      strategy_used      |-> strategy_used,
      metadata           |-> metadata ]

\* Python's None where a CurationResult is optional
None == [action |-> "None"]

IsNone(r) == r.action = "None"

\* dict.get(key, default)
Get(d, key, default) == IF key \in DOMAIN d THEN d[key] ELSE default

\* dict.update(other): the keys of other are added or overwritten
Update(d, other) ==
    [k \in DOMAIN d \cup DOMAIN other |->
        IF k \in DOMAIN other THEN other[k] ELSE d[k]]


(* --------------------------- FastFilterLayer --------------------------- *)

\* r'\b(fuck|shit|damn|bitch)\b', r'\b(kill|murder|die)\s+(you|yourself|them)\b',
\* r'\b(hate|kill)\s+all\s+\w+\b', all with re.IGNORECASE
ProfanityMatch(content) ==
    \/ \E i \in DOMAIN content :
          Lower(content[i]) \in {"fuck", "shit", "damn", "bitch"}
    \/ \E i \in DOMAIN content :
          /\ i + 1 \in DOMAIN content
          /\ Lower(content[i]) \in {"kill", "murder", "die"}
          /\ Lower(content[i + 1]) \in {"you", "yourself", "them"}
    \/ \E i \in DOMAIN content :
          /\ i + 2 \in DOMAIN content
          /\ Lower(content[i]) \in {"hate", "kill"}
          /\ Lower(content[i + 1]) = "all"
          /\ Lower(content[i + 2]) # "?"

\* r'bit\.ly/[0-9a-zA-Z]+', r'pornhub\.com', r'xxx\.', r'\.onion'
UrlMatch(content) ==
    \E i \in DOMAIN content :
        Lower(content[i]) \in {"bit.ly/abc123", "pornhub.com", "xxx.com", "site.onion"}

\* (mutant) FastFilterLayer.check with the URL patterns tried first
FastFilterCheckUrlFirst(content, ms) ==
    IF UrlMatch(content)
    THEN CurationResult("block", <<"Harmful URL detected">>,
                        90, 5, ms, "fast_filter",
                        [filter_type |-> "harmful_url"])
    ELSE IF ProfanityMatch(content)
    THEN CurationResult("block", <<"Profanity or harmful language detected">>,
                        95, 10, ms, "fast_filter",
                        [filter_type |-> "profanity"])
    ELSE None

\* FastFilterLayer.check
FastFilterCheck(content, ms) ==
    IF ProfanityMatch(content)
    THEN CurationResult("block", <<"Profanity or harmful language detected">>,
                        95, 10, ms, "fast_filter",
                        [filter_type |-> "profanity"])
    ELSE IF UrlMatch(content)
    THEN CurationResult("block", <<"Harmful URL detected">>,
                        90, 5, ms, "fast_filter",
                        [filter_type |-> "harmful_url"])
    ELSE None

(* -------------------------- SpecializedAILayer ------------------------- *)

Min(a, b) == IF a < b THEN a ELSE b
Max(a, b) == IF a > b THEN a ELSE b

\* SpecializedAILayer._mock_toxicity_analysis
MockToxicity(content) ==
    Min(20 * Cardinality({w \in {"hate", "kill", "stupid", "idiot", "moron", "threat"} :
                             InLower(w, content)}), 100)

\* SpecializedAILayer._mock_nsfw_analysis
MockNsfw(content) ==
    Min(25 * Cardinality({w \in {"sex", "porn", "naked", "adult", "explicit"} :
                             InLower(w, content)}), 100)

\* (mutant) SpecializedAILayer.analyze with the NSFW score tested first
SpecializedAnalyzeNsfwFirst(content, ms) ==
    IF MockNsfw(content) > 80
    THEN CurationResult("block",
                        <<"NSFW content detected (score: ", ToString(MockNsfw(content)), ")">>,
                        90, 100 - MockNsfw(content), ms, "specialized_ai",
                        [ai_type |-> "nsfw", nsfw_score |-> MockNsfw(content)])
    ELSE IF MockToxicity(content) > 70
    THEN CurationResult("block",
                        <<"High toxicity detected (score: ", ToString(MockToxicity(content)), ")">>,
                        85, 100 - MockToxicity(content), ms, "specialized_ai",
                        [ai_type |-> "toxicity", toxicity_score |-> MockToxicity(content)])
    ELSE None

\* SpecializedAILayer.analyze, thresholds 0.7 and 0.8
SpecializedAnalyze(content, ms) ==
    IF MockToxicity(content) > 70
    THEN CurationResult("block",
                        <<"High toxicity detected (score: ", ToString(MockToxicity(content)), ")">>,
                        85, 100 - MockToxicity(content), ms, "specialized_ai",
                        [ai_type |-> "toxicity", toxicity_score |-> MockToxicity(content)])
    ELSE IF MockNsfw(content) > 80
    THEN CurationResult("block",
                        <<"NSFW content detected (score: ", ToString(MockNsfw(content)), ")">>,
                        90, 100 - MockNsfw(content), ms, "specialized_ai",
                        [ai_type |-> "nsfw", nsfw_score |-> MockNsfw(content)])
    ELSE None

(* --------------------------- routing predicates ------------------------ *)

\* (mutant) _requires_llm_analysis with its two thresholds inclusive
RequiresLlmAnalysisInclusive(content, user_context) ==
    \/ StrLen(content) >= 500
    \/ user_context.age_category \in {"UNDER_13", "UNDER_16"}
    \/ \E w \in {"political", "controversial", "opinion", "debate"} : InLower(w, content)
    \/ CountQ(content) >= 2

\* MultiLayerStrategy._requires_llm_analysis
RequiresLlmAnalysis(content, user_context) ==
    \/ StrLen(content) > 500
    \/ user_context.age_category \in {"UNDER_13", "UNDER_16"}
    \/ \E w \in {"political", "controversial", "opinion", "debate"} : InLower(w, content)
    \/ CountQ(content) > 2

\* HybridStrategy._should_use_llm_only
ShouldUseLlmOnly(content) ==
    \/ InLower("demo", content) \/ InLower("test", content)
    \/ \E w \in {"cultural", "religious", "philosophical", "ethical", "moral",
                 "values", "belief", "opinion", "perspective"} : InLower(w, content)
    \/ \E w \in {"learn", "education", "teaching", "academic", "study",
                 "research", "knowledge"} : InLower(w, content)
    \/ Cardinality({w \in {"political", "government", "policy", "election"} :
                       InLower(w, content)}) > 1

\* (mutant) a cache key that also holds the jurisdiction
CacheKeyWithJurisdiction(content, user_context) ==
    content \o <<user_context.age_category, user_context.jurisdiction>>

\* hashlib.md5(f"{content}{user_context.age_category}"): the digest stands for
\* the text it is taken of, the content followed at once by the age category
CacheKey(content, user_context) == content \o <<user_context.age_category>>

(* --------------------------- LLM collaborator -------------------------- *)

\* labels the remote ComprehensiveContentAnalysis may put in its recommendation
RemoteLabels == {"allow", "monitor"}

\* what a remote call can do: answer with a label, or fail (ok = FALSE: the
\* call raised, or the analyzer has no client to call); on a failure the
\* analyzer answers with its mock, whose viewpoint bias is random.uniform(0.1, 0.4)
RemoteOutcomes ==
    [ok : {TRUE}, label : RemoteLabels, bias : {10}] \cup
    [ok : {FALSE}, label : {"none"}, bias : {10}]

\* no remote call was made (yet)
NoRemote == [ok |-> TRUE, label |-> "none", bias |-> 0]

\* the remote outcomes of the runs that also switch strategies
SwitchRemotes == {r \in RemoteOutcomes : r.label # "monitor"}

\* RealBAMLContentAnalyzer._mock_safety_classification
MockSafety(content) ==
    LET violence == Min(90, 20 * Cardinality(
                        {w \in {"violence", "fight", "attack", "kill", "hurt", "fighting"} :
                            InLower(w, content)}))
        concerning == \E w \in {"inappropriate", "mature", "concerning", "scary"} :
                            InLower(w, content)
    IN  [ safety_score |-> Max(10, 90 - violence - (IF concerning THEN 30 ELSE 0)),
          content_warnings |-> (IF violence > 20 THEN {"violence"} ELSE {}) \cup
                               (IF concerning THEN {"mature themes"} ELSE {}) ]

\* RealBAMLContentAnalyzer._mock_educational_classification (its score)
MockEducationalScore(content) ==
    Min(95, 30 + 15 * Cardinality(
        {w \in {"learn", "education", "study", "research", "science", "school"} :
            InLower(w, content)}))

\* RealBAMLContentAnalyzer._mock_comprehensive_analysis
MockComprehensiveAnalysis(content, bias) ==
    LET safety == MockSafety(content)
        recommendation ==
            IF safety.safety_score < 60 THEN "block"
            ELSE IF safety.safety_score < 80 \/ safety.content_warnings # {} THEN "caution"
            ELSE "allow"
        total == safety.safety_score + MockEducationalScore(content) + (100 - bias)
    IN  [ safety         |-> [score |-> safety.safety_score,
                              warnings |-> safety.content_warnings],
          recommendation |-> recommendation,
          confidence     |-> (2 * total + 3) \div 6,
          summary        |-> <<"Mock comprehensive analysis. Recommendation: ", recommendation>>,
          model          |-> "Mock-Fallback" ]

\* RealBAMLContentAnalyzer.comprehensive_analysis: the dict built from the remote
\* answer, or the mock's dict when the remote call raised or the client is
\* unavailable
ComprehensiveAnalysis(content, remote) ==
    IF remote.ok
    THEN [ safety         |-> [score |-> 80, warnings |-> {}],
           recommendation |-> remote.label,
           confidence     |-> 90,
           summary        |-> <<"remote reasoning">>,
           model          |-> "BAML-Real" ]
    ELSE MockComprehensiveAnalysis(content, remote.bias)

\* LLMOnlyStrategy.analyze_content, from the analyzer's answer to its return
LLMOnlyResult(result, ms) ==
    CurationResult(Get(result, "recommendation", "caution"),
                   Get(result, "summary_reasoning", <<"LLM analysis completed">>),
                   Get(result, "overall_confidence", 70),
                   Get(Get(result, "safety", [x \in {} |-> 0]), "safety_score", 50),
                   ms, "llm_only",
                   [full_analysis |-> result, baml_used |-> TRUE])

(* -------------------------------- state -------------------------------- *)

VARIABLES
    BAML_AVAILABLE,  \* module flag: the client library was imported
    strategy_type,   \* CurationEngine.strategy_type
    strategy,        \* CurationEngine.strategy: index of the active instance
    instances,       \* every strategy instance constructed so far
    heap,            \* every CurationResult object constructed so far
    calls,           \* every curate_content call, in dispatch order
    switches,        \* number of switch_strategy calls so far
    lastSwitch,      \* the last switch_strategy call: its argument and how it ended
    probe            \* a function called on its own: its arguments, then its value

vars == <<BAML_AVAILABLE, strategy_type, strategy, instances, heap, calls,
          switches, lastSwitch, probe>>

\* no function is called on its own
NoProbe == [fn |-> "none"]

EmptyMap == [x \in {} |-> 0]

\* d[key] = value on a dict
Put(d, key, value) ==
    [k \in DOMAIN d \cup {key} |-> IF k = key THEN value ELSE d[k]]

\* a strategy object: its class, the cache of its MultiLayerStrategy (its own
\* for multi_layer, that of self.multi_layer for hybrid); `returned` remembers,
\* per cache key, the value MultiLayerStrategy.analyze_content last returned
NewInstance(kind) == [kind |-> kind, cache |-> EmptyMap, returned |-> EmptyMap]

\* CurationEngine._create_strategy
CreateStrategy(name) ==
    CASE name = "llm_only"    -> NewInstance("llm_only")
      [] name = "multi_layer" -> NewInstance("multi_layer")
      [] name = "hybrid"      -> NewInstance("hybrid")

\* what one strategy call has done when it returns, raises or suspends
\* (ml: the value MultiLayerStrategy.analyze_content returned, None if it did
\* not; stages: the stages MultiLayerStrategy.analyze_content went through)
Outcome(tag, h, insts, obj, msg, route, hit, ml) ==
    [ tag |-> tag, heap |-> h, insts |-> insts, obj |-> obj, msg |-> msg,
      route |-> route, hit |-> hit, ml |-> ml, stages |-> <<>> ]

\* the stages of MultiLayerStrategy.analyze_content, in the order of its code
Stages == <<"cache", "fast_filter", "specialized_ai", "llm">>

\* out, reached after the first n stages were gone through
After(n, out) == [out EXCEPT !.stages = SubSeq(Stages, 1, n)]

\* the ValueError of an LLMOnlyStrategy that has no analyzer
NoAnalyzer == "LLM-Only Strategy requires BAML but it's not available"

\* LLMOnlyStrategy.analyze_content up to its await: with an analyzer it
\* suspends on comprehensive_analysis, without one it raises ValueError
LLMOnlyStart(h, insts, route) ==
    IF BAML_AVAILABLE
    THEN Outcome("await", h, insts, 0, "", route, FALSE, None)
    ELSE Outcome("raise", h, insts, 0, NoAnalyzer, route, FALSE, None)

\* the cache-hit branch of MultiLayerStrategy.analyze_content
CacheHit(h, obj) ==
    [h EXCEPT ![obj] = [@ EXCEPT !.processing_time_ms = 1,
                                 !.metadata = Update(@, [cache_hit |-> TRUE])]]

\* (mutant) MultiLayerStrategy that looks in its cache only when the fast
\* filter has passed
MultiLayerStartFilterFirst(h, insts, inst, content, user_context, ms, route) ==
    LET key   == CacheKey(content, user_context)
        cache == insts[inst].cache
        fast  == FastFilterCheck(content, ms)
        Fresh(r) ==
            Outcome("return", Append(h, r),
                    [insts EXCEPT ![inst].cache = Put(@, key, Len(h) + 1)],
                    Len(h) + 1, "", route, FALSE, r)
    IN  IF user_context.kind = "dict"
        THEN Outcome("raise", h, insts, 0,
                     "'dict' object has no attribute 'age_category'", route, FALSE, None)
        ELSE IF ~IsNone(fast)
        THEN [Fresh(fast) EXCEPT !.stages = <<"fast_filter">>]
        ELSE IF key \in DOMAIN cache
        THEN [Outcome("return", CacheHit(h, cache[key]), insts, cache[key], "", route, TRUE,
                      CacheHit(h, cache[key])[cache[key]])
                 EXCEPT !.stages = <<"fast_filter", "cache">>]
        ELSE [Fresh(CurationResult("allow", <<"Passed all automated checks">>,
                     80, 90, ms, "multi_layer_auto",
                     [layers_passed |-> <<"fast_filter", "specialized_ai">>]))
                 EXCEPT !.stages = <<"fast_filter", "cache", "specialized_ai">>]

\* MultiLayerStrategy.analyze_content up to its return or its await
MultiLayerStart(h, insts, inst, content, user_context, ms, route) ==
    LET key   == CacheKey(content, user_context)
        cache == insts[inst].cache
        fast  == FastFilterCheck(content, ms)
        spec  == SpecializedAnalyze(content, ms)
        Fresh(r) ==
            Outcome("return", Append(h, r),
                    [insts EXCEPT ![inst].cache = Put(@, key, Len(h) + 1)],
                    Len(h) + 1, "", route, FALSE, r)
    IN  IF user_context.kind = "dict"
        THEN Outcome("raise", h, insts, 0,
                     "'dict' object has no attribute 'age_category'", route, FALSE, None)
        ELSE IF key \in DOMAIN cache
        THEN After(1, Outcome("return", CacheHit(h, cache[key]), insts, cache[key], "",
                              route, TRUE, CacheHit(h, cache[key])[cache[key]]))
        ELSE IF ~IsNone(fast) THEN After(2, Fresh(fast))
        ELSE IF ~IsNone(spec) THEN After(3, Fresh(spec))
        ELSE IF RequiresLlmAnalysis(content, user_context)
        THEN IF BAML_AVAILABLE
             THEN After(4, LLMOnlyStart(h, insts, route))
             ELSE After(3, Fresh(CurationResult("caution",
                     <<"Complex content requires LLM analysis but BAML is not available">>,
                     50, 60, ms, "multi_layer_cautious",
                     [baml_required |-> TRUE, baml_available |-> FALSE,
                      engine_strategy |-> "multi_layer"])))
        ELSE After(3, Fresh(CurationResult("allow", <<"Passed all automated checks">>,
                     80, 90, ms, "multi_layer_auto",
                     [layers_passed |-> <<"fast_filter", "specialized_ai">>])))

\* (mutant) the tag is put on a copy and the result itself is left as it was
RetagCopy(h, obj, tag) == h

\* result.strategy_used = tag
Retag(h, obj, tag) == [h EXCEPT ![obj].strategy_used = tag]

\* (mutant) HybridStrategy that never delegates to LLMOnlyStrategy
HybridStartNeverLlm(h, insts, inst, content, user_context, ms) ==
    LET out == MultiLayerStart(h, insts, inst, content, user_context, ms, "hybrid_multi")
    IN  IF out.tag = "return"
        THEN [out EXCEPT !.heap = Retag(out.heap, out.obj, "hybrid_multi")]
        ELSE out

\* HybridStrategy.analyze_content up to its return or its await
HybridStart(h, insts, inst, content, user_context, ms) ==
    IF ShouldUseLlmOnly(content)
    THEN LLMOnlyStart(h, insts, "hybrid_llm")
    ELSE LET out == MultiLayerStart(h, insts, inst, content, user_context, ms, "hybrid_multi")
         IN  IF out.tag = "return"
             THEN [out EXCEPT !.heap = Retag(out.heap, out.obj, "hybrid_multi")]
             ELSE out

\* self.strategy.analyze_content(content, user_context), by the class of self.strategy
StrategyStart(h, insts, inst, content, user_context, ms) ==
    CASE insts[inst].kind = "llm_only"    -> LLMOnlyStart(h, insts, "llm_only")
      [] insts[inst].kind = "multi_layer" ->
            MultiLayerStart(h, insts, inst, content, user_context, ms, "multi_layer")
      [] insts[inst].kind = "hybrid"      ->
            HybridStart(h, insts, inst, content, user_context, ms)

\* the rest of a strategy call once comprehensive_analysis has answered: the
\* LLMOnlyStrategy result, then what the callers on the way out do with it
StrategyResume(h, insts, inst, content, user_context, route, remote, ms) ==
    LET obj == Len(h) + 1
        h1  == Append(h, LLMOnlyResult(ComprehensiveAnalysis(content, remote), ms))
        key == CacheKey(content, user_context)
        cached == [insts EXCEPT ![inst].cache = Put(@, key, obj)]
        h2  == Retag(h1, obj, "multi_layer_llm")
    IN  CASE route = "llm_only"     ->
                Outcome("return", h1, insts, obj, "", route, FALSE, None)
          [] route = "hybrid_llm"   ->
                Outcome("return", Retag(h1, obj, "hybrid_llm"), insts, obj, "", route,
                        FALSE, None)
          [] route = "multi_layer"  ->
                Outcome("return", h2, cached, obj, "", route, FALSE, h2[obj])
          [] route = "hybrid_multi" ->
                Outcome("return", Retag(h2, obj, "hybrid_multi"), cached, obj, "", route,
                        FALSE, h2[obj])

(* --------------------------- CurationEngine ---------------------------- *)

\* curate_content after the strategy returned: the engine metadata is put on
\* the object the strategy returned, and that object is returned
EngineStamp(h, obj, stype, total) ==
    [ outcome |-> "returned",
      heap    |-> [h EXCEPT ![obj].metadata =
                      Update(@, [engine_strategy |-> stype,
                                 total_processing_time_ms |-> total])],
      obj     |-> obj ]

\* (mutant) no except branch: the strategy's error leaves curate_content
EngineOnErrorPropagates(h, msg, total) ==
    [ outcome |-> "raised", heap |-> h, obj |-> 0 ]

\* (mutant) the except branch answers allow with the strategy's usual confidence
EngineOnErrorAllows(h, msg, total) ==
    [ outcome |-> "returned",
      heap    |-> Append(h, CurationResult("allow", <<"Engine error: ", msg>>, 50, 50,
                                           total, "error_handling", [error |-> msg])),
      obj     |-> Len(h) + 1 ]

\* curate_content's except branch: a new cautious result is returned
EngineOnError(h, msg, total) ==
    [ outcome |-> "returned",
      heap    |-> Append(h, CurationResult("caution", <<"Engine error: ", msg>>, 0, 50,
                                           total, "error_handling", [error |-> msg])),
      obj     |-> Len(h) + 1 ]

\* curate_content from the strategy's outcome to its own return
EngineFinish(out, stype, total) ==
    IF out.tag = "return"
    THEN EngineStamp(out.heap, out.obj, stype, total)
    ELSE EngineOnError(out.heap, out.msg, total)

\* CurationEngine.get_strategy_info
GetStrategyInfo ==
    [ strategy_type  |-> strategy_type,
      strategy_name  |-> instances[strategy].kind,
      baml_available |-> BAML_AVAILABLE ]

\* the bookkeeping of one MultiLayerStrategy return on its instance
NoteReturn(insts, inst, key, ml) ==
    IF IsNone(ml) THEN insts
    ELSE [insts EXCEPT ![inst].returned = Put(@, key, ml)]

\* the record of a call that has ended (fin: what EngineFinish gave): snap is
\* the result as curate_content returned it, sret the result as the active
\* strategy returned it, ml the result as MultiLayerStrategy returned it
Ended(call, out, fin) ==
    [ call EXCEPT
        !.pc      = "done",
        !.outcome = fin.outcome,
        !.raised  = (out.tag = "raise"),
        !.msg     = out.msg,
        !.ret     = fin.obj,
        !.snap    = IF fin.outcome = "returned" THEN fin.heap[fin.obj] ELSE None,
        !.sret    = IF out.tag = "return" THEN out.heap[out.obj] ELSE None,
        !.ml      = out.ml,
        !.hit     = out.hit,
        !.completions = @ + 1,
        !.switchesAtEnd = switches ]

Init ==
    /\ BAML_AVAILABLE \in BOOLEAN
    /\ strategy_type \in StrategyNames
    /\ instances = <<CreateStrategy(strategy_type)>>
    /\ strategy = 1
    /\ heap = <<>>
    /\ calls = <<>>
    /\ switches = 0
    /\ lastSwitch = [name |-> "none", returned |-> FALSE]
    /\ probe = NoProbe

\* curate_content is called and runs until it returns or until the strategy
\* suspends on the remote analysis
CurateContent(content, user_context, ms, total) ==
    /\ Len(calls) < MaxCalls
    /\ ms <= total
    /\ LET inst == strategy
           out  == StrategyStart(heap, instances, inst, content, user_context, ms)
           call == [ content |-> content, user_context |-> user_context,
                     inst |-> inst, after |-> lastSwitch, route |-> out.route,
                     pc |-> "await", outcome |-> "pending", raised |-> FALSE,
                     msg |-> "", ret |-> 0, snap |-> None, sret |-> None, ml |-> None,
                     hit |-> FALSE,
                     \* what LLMOnlyStrategy.analyze_content and the analyzer's
                     \* comprehensive_analysis have done in this call, and
                     \* what the remote analysis did
                     llm |-> IF out.tag = "await" THEN "awaiting"
                             ELSE IF out.tag = "raise" /\ out.msg = NoAnalyzer
                                  THEN "raised" ELSE "not called",
                     analyzer |-> IF out.tag = "await" THEN "awaiting" ELSE "not called",
                     remote |-> NoRemote,
                     \* an earlier call of this strategy instance with this
                     \* content and this age category has returned a result
                     \* of MultiLayerStrategy
                     sameBefore |-> \E j \in DOMAIN calls :
                                       /\ calls[j].pc = "done"
                                       /\ calls[j].inst = inst
                                       /\ calls[j].content = content
                                       /\ calls[j].user_context.age_category =
                                          user_context.age_category
                                       /\ ~IsNone(calls[j].ml),
                     \* how many times the call has invoked the remote analysis
                     invocations |-> IF out.tag = "await" THEN 1 ELSE 0,
                     \* how many times curate_content has returned for this call
                     completions |-> 0,
                     \* the stages MultiLayerStrategy.analyze_content went through
                     stages |-> out.stages,
                     \* self.strategy_type and the number of switch_strategy
                     \* calls so far, when the call was made and when it ended
                     stype |-> strategy_type,
                     switchesAtDispatch |-> switches, switchesAtEnd |-> switches,
                     \* what MultiLayerStrategy had last returned for this cache
                     \* key when the call was made
                     mlPrev |-> Get(instances[inst].returned,
                                    CacheKey(content, user_context), None) ]
           fin  == EngineFinish(out, strategy_type, total)
       IN  IF out.tag = "await"
           THEN /\ calls' = Append(calls, call)
                /\ UNCHANGED <<heap, instances>>
           ELSE /\ calls' = Append(calls, Ended(call, out, fin))
                /\ heap' = fin.heap
                /\ instances' = NoteReturn(out.insts, inst,
                                           CacheKey(content, user_context), out.ml)
    /\ UNCHANGED <<BAML_AVAILABLE, strategy_type, strategy, switches, lastSwitch, probe>>

\* (mutant) the answer is delivered but the call stays suspended on it
LLMAnswersStaysSuspended(i, remote, ms, total) ==
    /\ i \in DOMAIN calls
    /\ calls[i].pc = "await"
    /\ calls[i].completions < 2
    /\ ms <= total
    /\ LET call == calls[i]
           out  == StrategyResume(heap, instances, call.inst, call.content,
                                  call.user_context, call.route, remote, ms)
           fin  == EngineFinish(out, strategy_type, total)
       IN  /\ calls' = [calls EXCEPT ![i] = [Ended(call, out, fin) EXCEPT !.pc = "await"]]
           /\ heap' = fin.heap
           /\ instances' = NoteReturn(out.insts, call.inst,
                                      CacheKey(call.content, call.user_context), out.ml)
    /\ UNCHANGED <<BAML_AVAILABLE, strategy_type, strategy, switches, lastSwitch, probe>>

\* (mutant) a failed remote analysis is invoked again
LLMAnswersRetries(i, remote, ms, total) ==
    /\ i \in DOMAIN calls
    /\ calls[i].pc = "await"
    /\ ms <= total
    /\ LET call == calls[i]
           out  == StrategyResume(heap, instances, call.inst, call.content,
                                  call.user_context, call.route, remote, ms)
           fin  == EngineFinish(out, strategy_type, total)
       IN  IF ~remote.ok /\ call.invocations < 2
           THEN /\ calls' = [calls EXCEPT ![i].remote = remote,
                                          ![i].invocations = @ + 1]
                /\ UNCHANGED <<heap, instances>>
           ELSE /\ calls' = [calls EXCEPT ![i] =
                               [Ended(call, out, fin) EXCEPT
                                   !.llm = "returned", !.analyzer = "returned",
                                   !.remote = remote]]
                /\ heap' = fin.heap
                /\ instances' = NoteReturn(out.insts, call.inst,
                                           CacheKey(call.content, call.user_context), out.ml)
    /\ UNCHANGED <<BAML_AVAILABLE, strategy_type, strategy, switches, lastSwitch, probe>>

\* the remote analysis of a suspended call answers (or fails), and the call
\* runs to its return
LLMAnswers(i, remote, ms, total) ==
    /\ i \in DOMAIN calls
    /\ calls[i].pc = "await"
    /\ ms <= total
    /\ LET call == calls[i]
           out  == StrategyResume(heap, instances, call.inst, call.content,
                                  call.user_context, call.route, remote, ms)
           fin  == EngineFinish(out, strategy_type, total)
       IN  /\ calls' = [calls EXCEPT ![i] =
                           [Ended(call, out, fin) EXCEPT
                               !.llm = "returned", !.analyzer = "returned",
                               !.remote = remote]]
           /\ heap' = fin.heap
           /\ instances' = NoteReturn(out.insts, call.inst,
                                      CacheKey(call.content, call.user_context), out.ml)
    /\ UNCHANGED <<BAML_AVAILABLE, strategy_type, strategy, switches, lastSwitch, probe>>

\* names a caller may pass to switch_strategy
SwitchArguments == StrategyNames \cup {"fast_only"}

\* (mutant) switch_strategy that assigns strategy_type and keeps the old instance
SwitchStrategyKeepsInstance(new_strategy, constructed) ==
    /\ switches < MaxSwitches
    /\ constructed \/ BAML_AVAILABLE
    /\ switches' = switches + 1
    /\ IF new_strategy \notin StrategyNames
       THEN /\ lastSwitch' = [name |-> new_strategy, returned |-> FALSE]
            /\ UNCHANGED strategy_type
       ELSE /\ strategy_type' = new_strategy
            /\ lastSwitch' = [name |-> new_strategy, returned |-> constructed]
    /\ UNCHANGED <<BAML_AVAILABLE, heap, calls, strategy, instances, probe>>

\* (mutant) switch_strategy that keeps the active strategy, cache and all, when
\* the new type is the current one
SwitchStrategySameTypeKeeps(new_strategy, constructed) ==
    /\ switches < MaxSwitches
    /\ constructed \/ BAML_AVAILABLE
    /\ switches' = switches + 1
    /\ IF new_strategy \notin StrategyNames
       THEN /\ lastSwitch' = [name |-> new_strategy, returned |-> FALSE]
            /\ UNCHANGED <<strategy_type, strategy, instances>>
       ELSE IF new_strategy = instances[strategy].kind
       THEN /\ strategy_type' = new_strategy
            /\ lastSwitch' = [name |-> new_strategy, returned |-> TRUE]
            /\ UNCHANGED <<strategy, instances>>
       ELSE IF ~constructed
       THEN /\ strategy_type' = new_strategy
            /\ lastSwitch' = [name |-> new_strategy, returned |-> FALSE]
            /\ UNCHANGED <<strategy, instances>>
       ELSE /\ strategy_type' = new_strategy
            /\ instances' = Append(instances, CreateStrategy(new_strategy))
            /\ strategy' = Len(instances) + 1
            /\ lastSwitch' = [name |-> new_strategy, returned |-> TRUE]
    /\ UNCHANGED <<BAML_AVAILABLE, heap, calls, probe>>

\* (mutant) switch_strategy that, given an unknown name, raises only after it
\* has replaced the active strategy by a new one of the current type
SwitchStrategyInvalidResets(new_strategy, constructed) ==
    /\ switches < MaxSwitches
    /\ constructed \/ BAML_AVAILABLE
    /\ switches' = switches + 1
    /\ IF new_strategy \notin StrategyNames
       THEN /\ lastSwitch' = [name |-> new_strategy, returned |-> FALSE]
            /\ instances' = Append(instances, CreateStrategy(strategy_type))
            /\ strategy' = Len(instances) + 1
            /\ UNCHANGED strategy_type
       ELSE IF ~constructed
       THEN /\ strategy_type' = new_strategy
            /\ lastSwitch' = [name |-> new_strategy, returned |-> FALSE]
            /\ UNCHANGED <<strategy, instances>>
       ELSE /\ strategy_type' = new_strategy
            /\ instances' = Append(instances, CreateStrategy(new_strategy))
            /\ strategy' = Len(instances) + 1
            /\ lastSwitch' = [name |-> new_strategy, returned |-> TRUE]
    /\ UNCHANGED <<BAML_AVAILABLE, heap, calls, probe>>

\* switch_strategy(new_strategy); constructed is whether _create_strategy
\* returned (building the analyzer opens a log file, which can fail)
SwitchStrategy(new_strategy, constructed) ==
    /\ switches < MaxSwitches
    /\ constructed \/ BAML_AVAILABLE
    /\ switches' = switches + 1
    /\ IF new_strategy \notin StrategyNames
       THEN /\ lastSwitch' = [name |-> new_strategy, returned |-> FALSE]
            /\ UNCHANGED <<strategy_type, strategy, instances>>
       ELSE IF ~constructed
       THEN /\ strategy_type' = new_strategy
            /\ lastSwitch' = [name |-> new_strategy, returned |-> FALSE]
            /\ UNCHANGED <<strategy, instances>>
       ELSE /\ strategy_type' = new_strategy
            /\ instances' = Append(instances, CreateStrategy(new_strategy))
            /\ strategy' = Len(instances) + 1
            /\ lastSwitch' = [name |-> new_strategy, returned |-> TRUE]
    /\ UNCHANGED <<BAML_AVAILABLE, heap, calls, probe>>

\* one engine, one active strategy for its whole life
Next ==
    \/ \E content \in Contents, user_context \in UserContexts, t \in LocalTimings :
          CurateContent(content, user_context, t[1], t[2])
    \/ \E i \in DOMAIN calls, remote \in RemoteOutcomes, t \in RemoteTimings :
          LLMAnswers(i, remote, t[1], t[2])

Spec == Init /\ [][Next]_vars

\* the engine with its strategy switched while calls come and go
SwitchNext ==
    \/ \E content \in SwitchContents, user_context \in SwitchContexts, t \in SwitchTimings :
          CurateContent(content, user_context, t[1], t[2])
    \/ \E i \in DOMAIN calls, remote \in SwitchRemotes, t \in RemoteTimings :
          LLMAnswers(i, remote, t[1], t[2])
    \/ \E new_strategy \in SwitchArguments, constructed \in BOOLEAN :
          SwitchStrategy(new_strategy, constructed)

SwitchSpec == Init /\ [][SwitchNext]_vars

\* an engine constructed with strategy "hybrid", never switched
HybridInit == Init /\ strategy_type = "hybrid"

HybridNext ==
    \/ \E content \in HybridContents, user_context \in HybridContexts, t \in SwitchTimings :
          CurateContent(content, user_context, t[1], t[2])
    \/ \E i \in DOMAIN calls, remote \in SwitchRemotes, t \in RemoteTimings :
          LLMAnswers(i, remote, t[1], t[2])

HybridSpec == HybridInit /\ [][HybridNext]_vars

\* the remote analysis of every suspended call eventually answers or fails
LLMEventuallyAnswers ==
    \A i \in 1..MaxCalls :
        WF_vars(\E remote \in SwitchRemotes, t \in RemoteTimings :
                    LLMAnswers(i, remote, t[1], t[2]))

\* the steps of the runs in which every remote analysis ends
LiveNext ==
    \/ \E content \in SwitchContents, user_context \in SwitchContexts, t \in SwitchTimings :
          CurateContent(content, user_context, t[1], t[2])
    \/ \E i \in DOMAIN calls, remote \in SwitchRemotes, t \in RemoteTimings :
          LLMAnswers(i, remote, t[1], t[2])
    \/ \E new_strategy \in {"llm_only"} : SwitchStrategy(new_strategy, TRUE)

\* the engine with a remote analysis that always ends
LiveSpec == Init /\ [][LiveNext]_vars /\ LLMEventuallyAnswers

\* _requires_llm_analysis is about to be called on some content and context
RequiresInit ==
    /\ BAML_AVAILABLE = TRUE
    /\ strategy_type = "multi_layer"
    /\ instances = <<CreateStrategy(strategy_type)>>
    /\ strategy = 1
    /\ heap = <<>>
    /\ calls = <<>>
    /\ switches = 0
    /\ lastSwitch = [name |-> "none", returned |-> FALSE]
    /\ probe \in [ fn : {"_requires_llm_analysis"}, content : RequiresContents,
                    user_context : RequiresContexts, returned : {FALSE}, value : {FALSE} ]

\* self._requires_llm_analysis(content, user_context) returns
RequiresLlmReturns ==
    /\ probe.fn = "_requires_llm_analysis"
    /\ ~probe.returned
    /\ probe' = [probe EXCEPT !.returned = TRUE,
                              !.value = RequiresLlmAnalysis(probe.content, probe.user_context)]
    /\ UNCHANGED <<BAML_AVAILABLE, strategy_type, strategy, instances, heap, calls,
                   switches, lastSwitch>>

RequiresSpec == RequiresInit /\ [][RequiresLlmReturns]_vars

\* an engine that stays aside while a function is called on its own
EngineAside ==
    /\ BAML_AVAILABLE = TRUE
    /\ strategy_type = "multi_layer"
    /\ instances = <<CreateStrategy(strategy_type)>>
    /\ strategy = 1
    /\ heap = <<>>
    /\ calls = <<>>
    /\ switches = 0
    /\ lastSwitch = [name |-> "none", returned |-> FALSE]

\* FastFilterLayer.check is about to be called on some content
FastInit ==
    /\ EngineAside
    /\ probe \in [ fn : {"check"}, content : FastContents,
                    returned : {FALSE}, value : {None} ]

\* self.fast_filter.check(content) returns
FastFilterReturns ==
    /\ probe.fn = "check"
    /\ ~probe.returned
    /\ probe' = [probe EXCEPT !.returned = TRUE,
                              !.value = FastFilterCheck(probe.content, 0)]
    /\ UNCHANGED <<BAML_AVAILABLE, strategy_type, strategy, instances, heap, calls,
                   switches, lastSwitch>>

FastSpec == FastInit /\ [][FastFilterReturns]_vars

\* SpecializedAILayer.analyze is about to be called on some content
SpecializedInit ==
    /\ EngineAside
    /\ probe \in [ fn : {"analyze"}, content : SpecializedContents,
                    returned : {FALSE}, value : {None} ]

\* await self.specialized_ai.analyze(content) returns
SpecializedReturns ==
    /\ probe.fn = "analyze"
    /\ ~probe.returned
    /\ probe' = [probe EXCEPT !.returned = TRUE,
                              !.value = SpecializedAnalyze(probe.content, 0)]
    /\ UNCHANGED <<BAML_AVAILABLE, strategy_type, strategy, instances, heap, calls,
                   switches, lastSwitch>>

SpecializedSpec == SpecializedInit /\ [][SpecializedReturns]_vars

\* an engine whose strategy has a MultiLayerStrategy cache, never switched
CacheInit == Init /\ strategy_type \in {"multi_layer", "hybrid"}

CacheNext ==
    \/ \E content \in CacheContents, user_context \in CacheContexts, t \in SwitchTimings :
          CurateContent(content, user_context, t[1], t[2])
    \/ \E i \in DOMAIN calls, remote \in SwitchRemotes, t \in RemoteTimings :
          LLMAnswers(i, remote, t[1], t[2])

CacheSpec == CacheInit /\ [][CacheNext]_vars

(* ------------------------------- claims -------------------------------- *)

Done(i) == calls[i].pc = "done"

FieldsOfResult ==
    {"action", "reason", "confidence", "safety_score", "processing_time_ms",
     "strategy_used", "metadata"}

\* C1: curate_content never propagates an exception: whatever the active
\* strategy did (returned, or raised any error), every call that has ended
\* ended by returning a CurationResult with all its fields.
C1_NeverPropagates ==
    \A i \in DOMAIN calls :
        Done(i) => /\ calls[i].outcome = "returned"
                   /\ calls[i].ret \in DOMAIN heap
                   /\ DOMAIN calls[i].snap = FieldsOfResult

\* a call whose strategy raised has ended
C1_Witness ==
    \E i \in DOMAIN calls : Done(i) /\ calls[i].raised /\ calls[i].outcome = "returned"

\* C2: when the active strategy raises, the result returned is caution with
\* confidence 0.0, tagged error_handling, with the error message in its reason;
\* it is never allow.
C2_ErrorResult ==
    \A i \in DOMAIN calls :
        (Done(i) /\ calls[i].raised) =>
            /\ calls[i].snap.action = "caution"
            /\ calls[i].snap.action # "allow"
            /\ calls[i].snap.confidence = 0
            /\ calls[i].snap.strategy_used = "error_handling"
            /\ \E k \in DOMAIN calls[i].snap.reason :
                   calls[i].snap.reason[k] = calls[i].msg

\* a MultiLayerStrategy call raised (the context has no age_category) and
\* the engine has answered
C2_Witness ==
    \E i \in DOMAIN calls :
        /\ Done(i) /\ calls[i].raised
        /\ calls[i].route = "multi_layer"
        /\ calls[i].msg = "'dict' object has no attribute 'age_category'"

\* C3: every result curate_content returns, on the success path and on the
\* error path, carries metadata.engine_strategy and
\* metadata.total_processing_time_ms.
C3_AlwaysStamped ==
    \A i \in DOMAIN calls :
        (Done(i) /\ calls[i].outcome = "returned") =>
            {"engine_strategy", "total_processing_time_ms"}
                \subseteq DOMAIN calls[i].snap.metadata

\* C4: the engine's stamping is additive: every metadata key of the result the
\* strategy returned has, in the result curate_content returns, the value the
\* strategy returned it with.
C4_StampingAdditive ==
    \A i \in DOMAIN calls :
        (Done(i) /\ ~calls[i].raised) =>
            \A k \in DOMAIN calls[i].sret.metadata :
                /\ k \in DOMAIN calls[i].snap.metadata
                /\ calls[i].snap.metadata[k] = calls[i].sret.metadata[k]

\* C5: a cache hit returns a copy: a result object curate_content has returned
\* is the object of no other call, and stays as it was returned.
C5_CachedResultNotMutated ==
    \A i \in DOMAIN calls :
        (Done(i) /\ calls[i].outcome = "returned") =>
            /\ heap[calls[i].ret] = calls[i].snap
            /\ \A j \in DOMAIN calls :
                   (j # i /\ Done(j)) => calls[j].ret # calls[i].ret

\* the calls in which MultiLayerStrategy.analyze_content returned a result
MultiLayerReturned(i) == Done(i) /\ ~IsNone(calls[i].ml)

FastFilterMatches(content) == ProfanityMatch(content) \/ UrlMatch(content)

LayersPass(content) == ~FastFilterMatches(content) /\ IsNone(SpecializedAnalyze(content, 0))

\* C6: of two successive MultiLayerStrategy calls with the same (content,
\* age_category), the second returns the action, confidence and safety_score of
\* the first with metadata.cache_hit = true, and differs from what the first
\* returned in nothing but processing_time_ms and that flag.
C6_SecondCallSameButFlag ==
    \A i \in DOMAIN calls :
        (MultiLayerReturned(i) /\ ~IsNone(calls[i].mlPrev)) =>
            LET first == calls[i].mlPrev
                second == calls[i].ml
                keys(r) == DOMAIN r.metadata \ {"cache_hit"}
            IN  /\ second.action = first.action
                /\ second.confidence = first.confidence
                /\ second.safety_score = first.safety_score
                /\ "cache_hit" \in DOMAIN second.metadata
                /\ second.metadata["cache_hit"] = TRUE
                /\ second.reason = first.reason
                /\ second.strategy_used = first.strategy_used
                /\ keys(second) = keys(first)
                /\ \A k \in keys(second) \cap keys(first) :
                       second.metadata[k] = first.metadata[k]

\* C7: for content that matches a profanity or URL pattern, whatever the user
\* context and the earlier calls on the instance, standalone or inside
\* HybridStrategy, MultiLayerStrategy.analyze_content returns block, tagged
\* fast_filter, with confidence >= 0.9.
C7_FastFilterBlocks ==
    \A i \in DOMAIN calls :
        (MultiLayerReturned(i) /\ FastFilterMatches(calls[i].content)) =>
            /\ calls[i].ml.action = "block"
            /\ calls[i].ml.strategy_used = "fast_filter"
            /\ calls[i].ml.confidence >= 90

\* C8: for content that matches no fast-filter rule and no specialized-layer
\* threshold and does not require LLM analysis, MultiLayerStrategy returns
\* allow, tagged multi_layer_auto, confidence 0.8, safety_score 0.9.
C8_DefaultAllow ==
    \A i \in DOMAIN calls :
        ( /\ MultiLayerReturned(i)
          /\ LayersPass(calls[i].content)
          /\ ~RequiresLlmAnalysis(calls[i].content, calls[i].user_context) ) =>
            /\ calls[i].ml.action = "allow"
            /\ calls[i].ml.strategy_used = "multi_layer_auto"
            /\ calls[i].ml.confidence = 80
            /\ calls[i].ml.safety_score = 90

\* C9: when LLM analysis is required, both earlier layers pass and no LLM
\* strategy is configured, MultiLayerStrategy returns caution (never allow),
\* confidence 0.5, safety_score 0.6, tagged multi_layer_cautious, on the first
\* call and on every later cache hit.
C9_CautiousWithoutLlm ==
    \A i \in DOMAIN calls :
        ( /\ MultiLayerReturned(i)
          /\ ~BAML_AVAILABLE
          /\ LayersPass(calls[i].content)
          /\ RequiresLlmAnalysis(calls[i].content, calls[i].user_context) ) =>
            /\ calls[i].ml.action = "caution"
            /\ calls[i].ml.action # "allow"
            /\ calls[i].ml.confidence = 50
            /\ calls[i].ml.safety_score = 60
            /\ calls[i].ml.strategy_used = "multi_layer_cautious"

\* the routes a strategy class can take
RoutesOf(kind) ==
    CASE kind = "llm_only"    -> {"llm_only"}
      [] kind = "multi_layer" -> {"multi_layer"}
      [] kind = "hybrid"      -> {"hybrid_llm", "hybrid_multi"}

\* C10: once switch_strategy(s) has returned, get_strategy_info reports
\* strategy_type = s, and every curate_content call dispatched from then to the
\* next switch_strategy call is analysed by an instance of strategy s only.
C10_SwitchTakesEffect ==
    /\ lastSwitch.returned =>
          /\ GetStrategyInfo.strategy_type = lastSwitch.name
          /\ GetStrategyInfo.strategy_name = lastSwitch.name
    /\ \A i \in DOMAIN calls :
          calls[i].after.returned =>
              /\ instances[calls[i].inst].kind = calls[i].after.name
              /\ calls[i].route \in RoutesOf(calls[i].after.name)

\* a call dispatched after a switch to another strategy than the engine was
\* constructed with has ended
C10_Witness ==
    \E i \in DOMAIN calls :
        /\ Done(i)
        /\ calls[i].after.returned
        /\ calls[i].after.name # instances[1].kind
        /\ calls[i].route \in RoutesOf(calls[i].after.name)

\* the tags a strategy class puts in strategy_used
TagsOf(kind) ==
    CASE kind = "llm_only"    -> {"llm_only"}
      [] kind = "multi_layer" -> {"fast_filter", "specialized_ai", "multi_layer_llm",
                                  "multi_layer_cautious", "multi_layer_auto"}
      [] kind = "hybrid"      -> {"hybrid_llm", "hybrid_multi"}

\* the calls that were suspended on their strategy while switch_strategy ran,
\* and have since returned what that strategy returned
SwitchedInFlight(i) ==
    /\ Done(i) /\ ~calls[i].raised
    /\ calls[i].switchesAtEnd > calls[i].switchesAtDispatch

\* C11: a curate_content call in flight while switch_strategy runs is not
\* affected by the switch: its result is the one the strategy active at
\* dispatch produced, and its metadata.engine_strategy names that strategy,
\* not the newly selected one.
C11_InFlightUnaffected ==
    \A i \in DOMAIN calls :
        SwitchedInFlight(i) =>
            /\ calls[i].snap.strategy_used \in TagsOf(instances[calls[i].inst].kind)
            /\ calls[i].snap.metadata["engine_strategy"] = calls[i].stype

\* the calls a HybridStrategy instance analysed
ByHybrid(i) == instances[calls[i].inst].kind = "hybrid"

\* the strategy of the call has returned a result
StrategyReturned(i) == Done(i) /\ ~calls[i].raised

\* the calls in which LLMOnlyStrategy.analyze_content ran to its end
LLMOnlyEnded(i) == calls[i].llm \in {"raised", "returned"}

\* the remote capability failed, or the strategy has no analyzer
RemoteUnusable(i) == ~calls[i].remote.ok \/ ~BAML_AVAILABLE

\* C12: LLMOnlyStrategy.analyze_content never degrades silently: whenever the
\* remote classification fails or no analyzer is configured, the call raises
\* and returns no CurationResult.
C12_NeverDegradesSilently ==
    \A i \in DOMAIN calls :
        (LLMOnlyEnded(i) /\ RemoteUnusable(i)) =>
            /\ calls[i].llm = "raised"
            /\ Done(i) => (calls[i].raised /\ IsNone(calls[i].sret))

\* the dict comprehensive_analysis returned to the call
Payload(i) == ComprehensiveAnalysis(calls[i].content, calls[i].remote)

\* C13: when the remote analysis succeeds, the result of
\* LLMOnlyStrategy.analyze_content has the remote recommendation as action, the
\* remote overall confidence, safety sub-score and reasoning as confidence,
\* safety_score and reason, is tagged llm_only, and holds the analyzer's dict
\* unmodified under metadata.full_analysis.
C13_MapsRemoteResult ==
    \A i \in DOMAIN calls :
        ( /\ calls[i].route = "llm_only" /\ StrategyReturned(i)
          /\ calls[i].llm = "returned" /\ calls[i].remote.ok ) =>
            LET result == calls[i].sret
            IN  /\ result.action = Payload(i).recommendation
                /\ result.confidence = Payload(i).confidence
                /\ result.safety_score = Payload(i).safety.score
                /\ result.reason = Payload(i).summary
                /\ result.strategy_used = "llm_only"
                /\ result.metadata["full_analysis"] = Payload(i)

\* C14: the analyzer signals failure as an error: whenever the remote
\* ComprehensiveContentAnalysis call fails or the client is unavailable,
\* comprehensive_analysis raises to its caller and returns no dict.
C14_AnalyzerRaisesOnFailure ==
    \A i \in DOMAIN calls :
        (calls[i].analyzer \in {"raised", "returned"} /\ ~calls[i].remote.ok) =>
            calls[i].analyzer = "raised"

\* C15: HybridStrategy.analyze_content delegates to LLMOnlyStrategy and returns
\* strategy_used = hybrid_llm exactly when _should_use_llm_only holds, and
\* otherwise delegates to MultiLayerStrategy and returns hybrid_multi; content
\* containing 'education' yields hybrid_llm, 'Just had a great lunch today'
\* with an adult user yields hybrid_multi with action allow.
C15_HybridRouting ==
    \A i \in DOMAIN calls :
        ByHybrid(i) =>
            LET call == calls[i]
                llm == ShouldUseLlmOnly(call.content)
            IN  /\ llm <=> (call.llm # "not called" /\ call.route = "hybrid_llm")
                /\ ~llm <=> call.route = "hybrid_multi"
                /\ StrategyReturned(i) =>
                      /\ llm <=> (call.sret.strategy_used = "hybrid_llm" /\ IsNone(call.ml))
                      /\ ~llm <=> (call.sret.strategy_used = "hybrid_multi" /\ ~IsNone(call.ml))
                /\ (StrategyReturned(i) /\ InLower("education", call.content)) =>
                      call.sret.strategy_used = "hybrid_llm"
                /\ ( /\ Done(i) /\ call.content = LunchToday
                     /\ call.user_context.age_category = "ADULT" ) =>
                      /\ StrategyReturned(i)
                      /\ call.sret.strategy_used = "hybrid_multi"
                      /\ call.sret.action = "allow"

\* a hybrid engine has answered the education content through LLMOnlyStrategy
\* and the lunch sentence of an adult through MultiLayerStrategy
C15_Witness ==
    /\ \E i \in DOMAIN calls :
          /\ ByHybrid(i) /\ StrategyReturned(i)
          /\ calls[i].content = <<"education">>
          /\ calls[i].sret.strategy_used = "hybrid_llm"
    /\ \E j \in DOMAIN calls :
          /\ ByHybrid(j) /\ StrategyReturned(j)
          /\ calls[j].content = LunchToday
          /\ calls[j].user_context.age_category = "ADULT"
          /\ calls[j].sret.strategy_used = "hybrid_multi"
          /\ calls[j].sret.action = "allow"

\* the closed enumeration of CurationResult.action
Actions == {"allow", "caution", "block", "review"}

\* C16: every CurationResult curate_content returns, under any strategy and
\* for any response of the LLM collaborator, has its action in
\* {allow, caution, block, review}.
C16_ActionInEnum ==
    \A i \in DOMAIN calls :
        (Done(i) /\ calls[i].outcome = "returned") => calls[i].snap.action \in Actions

\* C17: each call to curate_content produces exactly one CurationResult:
\* provided the remote analysis eventually answers or fails, every dispatched
\* call eventually completes; it completes once, with one result, and a call
\* that has completed stays completed with that result.
C17_ExactlyOneResult ==
    /\ \A i \in 1..MaxCalls :
          (i \in DOMAIN calls) ~> (i \in DOMAIN calls /\ Done(i))
    /\ [](\A i \in DOMAIN calls :
            /\ calls[i].completions = IF Done(i) THEN 1 ELSE 0
            /\ Done(i) => (calls[i].outcome = "returned" /\ calls[i].ret \in DOMAIN heap))
    /\ [][\A i \in DOMAIN calls :
            Done(i) => (calls'[i].pc = "done" /\ calls'[i].ret = calls[i].ret)]_vars

\* a call that was suspended on the remote analysis has completed, once
C17_Witness ==
    \E i \in DOMAIN calls :
        /\ Done(i)
        /\ calls[i].llm = "returned"
        /\ calls[i].completions = 1

\* calls i and j of one MultiLayerStrategy instance, with the same cache key,
\* that both missed the cache and went to the LLM tier: the cache is written
\* only when a call returns, so j was dispatched while i was still suspended
ConcurrentMisses(i, j) ==
    /\ i < j
    /\ calls[i].inst = calls[j].inst
    /\ CacheKey(calls[i].content, calls[i].user_context) =
       CacheKey(calls[j].content, calls[j].user_context)
    /\ MultiLayerReturned(i) /\ MultiLayerReturned(j)
    /\ ~calls[i].hit /\ ~calls[j].hit
    /\ calls[i].llm = "returned" /\ calls[j].llm = "returned"

\* the fields of a cache entry that make the decision
Decision(r) == <<r.action, r.reason, r.confidence, r.safety_score, r.strategy_used>>

\* C18: concurrent writes to one MultiLayerStrategy cache key are idempotent:
\* two calls with the same (content, age_category) in flight together that both
\* miss the cache return the same action, confidence and safety_score, and
\* the entry the last writer leaves equals the entry the first writer left.
C18_ConcurrentWritesIdempotent ==
    \A i, j \in DOMAIN calls :
        ConcurrentMisses(i, j) =>
            /\ calls[i].ml.action = calls[j].ml.action
            /\ calls[i].ml.confidence = calls[j].ml.confidence
            /\ calls[i].ml.safety_score = calls[j].ml.safety_score
            /\ Decision(calls[i].ml) = Decision(calls[j].ml)

\* _requires_llm_analysis has returned from a call on its own
RequiresProbed == probe.fn = "_requires_llm_analysis" /\ probe.returned

\* C19: _requires_llm_analysis(content, user_context) is true if and only if
\* len(content) > 500, or age_category is UNDER_13 or UNDER_16, or the
\* lower-cased content contains political, controversial, opinion or debate, or
\* content has more than two '?'.  It is false at length exactly 500 and at
\* exactly two '?', and true for a content of 600 characters of an adult.
C19_RequiresLlmIff ==
    RequiresProbed =>
        LET content == probe.content
            age == probe.user_context.age_category
            young == age \in {"UNDER_13", "UNDER_16"}
            watched == \E w \in {"political", "controversial", "opinion", "debate"} :
                           InLower(w, content)
        IN  /\ probe.value <=> \/ StrLen(content) > 500
                               \/ young
                               \/ watched
                               \/ CountQ(content) > 2
            /\ (StrLen(content) = 500 /\ ~young /\ ~watched /\ CountQ(content) <= 2) =>
                  ~probe.value
            /\ (CountQ(content) = 2 /\ ~young /\ ~watched /\ StrLen(content) <= 500) =>
                  ~probe.value
            /\ (StrLen(content) = 600 /\ age = "ADULT") => probe.value

\* the function has answered false for a content of exactly 500 characters and
\* exactly two '?' of an adult
C19_Witness ==
    /\ RequiresProbed
    /\ StrLen(probe.content) = 500
    /\ CountQ(probe.content) = 2
    /\ probe.user_context.age_category = "ADULT"
    /\ ~probe.value

\* the calls that entered MultiLayerStrategy.analyze_content and got past its
\* cache key
InMultiLayer(i) ==
    /\ calls[i].route \in {"multi_layer", "hybrid_multi"}
    /\ calls[i].user_context.kind = "object"

\* s is the beginning of t
IsPrefix(s, t) == Len(s) <= Len(t) /\ s = SubSeq(t, 1, Len(s))

\* C20: MultiLayerStrategy.analyze_content runs its stages in the order cache
\* lookup, fast filter, specialized layer, LLM and stops at the first decision:
\* on a cache hit no layer is invoked; the specialized layer is invoked only
\* after the fast filter passed; the LLM delegate is invoked only after both
\* layers passed and _requires_llm_analysis is true.
C20_StagesInOrder ==
    \A i \in DOMAIN calls :
        InMultiLayer(i) =>
            LET call == calls[i]
                ran(stage) == \E k \in DOMAIN call.stages : call.stages[k] = stage
            IN  /\ IsPrefix(call.stages, Stages)
                /\ ran("cache")
                /\ call.hit <=> call.stages = <<"cache">>
                /\ ran("specialized_ai") => ~FastFilterMatches(call.content)
                /\ (~call.hit /\ FastFilterMatches(call.content)) =>
                      call.stages = <<"cache", "fast_filter">>
                /\ (ran("specialized_ai") /\ ~LayersPass(call.content)) => ~ran("llm")
                /\ ran("llm") <=> call.llm # "not called"
                /\ ran("llm") =>
                      /\ LayersPass(call.content)
                      /\ RequiresLlmAnalysis(call.content, call.user_context)

\* one call went through all four stages and has returned, and a later call
\* of the same instance stopped at its cache
C20_Witness ==
    \E i, j \in DOMAIN calls :
        /\ InMultiLayer(i) /\ InMultiLayer(j)
        /\ Done(i) /\ calls[i].stages = Stages
        /\ Done(j) /\ calls[j].hit /\ calls[j].stages = <<"cache">>

\* FastFilterLayer.check has returned from a call on its own
FastProbed == probe.fn = "check" /\ probe.returned

\* C21: FastFilterLayer.check returns a block result if and only if some rule
\* matches, the profanity category before the URL category: a profanity match
\* gives confidence 0.95, safety_score 0.1, filter_type profanity even when a
\* URL pattern matches too; a URL match alone (as in 'Click this:
\* bit.ly/abc123') gives confidence 0.9, safety_score 0.05, filter_type
\* harmful_url; otherwise the result is None.
C21_FirstMatchBlocks ==
    FastProbed =>
        LET r == probe.value
            profanity == ProfanityMatch(probe.content)
            url == UrlMatch(probe.content)
        IN  /\ ~IsNone(r) <=> (profanity \/ url)
            /\ ~IsNone(r) => (r.action = "block" /\ r.strategy_used = "fast_filter")
            /\ profanity => /\ r.confidence = 95
                            /\ r.safety_score = 10
                            /\ r.metadata = [filter_type |-> "profanity"]
            /\ (url /\ ~profanity) => /\ r.confidence = 90
                                      /\ r.safety_score = 5
                                      /\ r.metadata = [filter_type |-> "harmful_url"]
            /\ probe.content = ClickThis => /\ r.confidence = 90
                                            /\ r.safety_score = 5
                                            /\ r.metadata["filter_type"] = "harmful_url"
            /\ probe.content \in {<<"damned">>, <<"bit.ly/">>, <<"kill", "all">>} => IsNone(r)

\* check has answered a content that matches a profanity pattern and a URL
\* pattern
C21_Witness ==
    /\ FastProbed
    /\ ProfanityMatch(probe.content) /\ UrlMatch(probe.content)
    /\ probe.value.metadata["filter_type"] = "profanity"

\* SpecializedAILayer.analyze has returned from a call on its own
SpecializedProbed == probe.fn = "analyze" /\ probe.returned

\* how many words of a watch list the lower-cased content contains
Contained(words, content) == Cardinality({w \in words : InLower(w, content)})

\* C22: SpecializedAILayer.analyze returns a block result if and only if
\* toxicity > 0.7 or nsfw > 0.8, with toxicity = min(1, 0.2 x distinct toxic
\* words contained) and nsfw = min(1, 0.25 x distinct nsfw words contained);
\* toxicity is tested first: when it is exceeded the result is the toxicity one
\* (confidence 0.85, safety_score 1 - toxicity), otherwise the nsfw one
\* (confidence 0.90, safety_score 1 - nsfw); safety_score lies in [0, 1]; with
\* neither exceeded the result is None.
C22_ThresholdsBlock ==
    SpecializedProbed =>
        LET r == probe.value
            toxicity == Min(100, 20 * Contained({"hate", "kill", "stupid", "idiot",
                                                 "moron", "threat"}, probe.content))
            nsfw == Min(100, 25 * Contained({"sex", "porn", "naked", "adult", "explicit"},
                                            probe.content))
        IN  /\ ~IsNone(r) <=> (toxicity > 70 \/ nsfw > 80)
            /\ ~IsNone(r) => /\ r.action = "block"
                             /\ r.safety_score >= 0 /\ r.safety_score <= 100
            /\ toxicity > 70 => /\ r.confidence = 85
                                /\ r.safety_score = 100 - toxicity
                                /\ r.metadata["ai_type"] = "toxicity"
            /\ (toxicity <= 70 /\ nsfw > 80) => /\ r.confidence = 90
                                                /\ r.safety_score = 100 - nsfw
                                                /\ r.metadata["ai_type"] = "nsfw"

\* analyze has answered a content over both thresholds with the toxicity result
C22_Witness ==
    /\ SpecializedProbed
    /\ MockToxicity(probe.content) > 70 /\ MockNsfw(probe.content) > 80
    /\ probe.value.metadata["ai_type"] = "toxicity"

\* C23: no retries: during one curate_content call, under any strategy, the
\* remote analysis is invoked at most once, and after it has failed it is not
\* invoked again within that call.
C23_NoRetries ==
    \A i \in DOMAIN calls :
        /\ calls[i].invocations <= 1
        /\ calls[i].llm = "not called" => calls[i].invocations = 0
        /\ ~calls[i].remote.ok => (Done(i) /\ calls[i].invocations = 1)

\* a call whose one remote analysis failed has returned
C23_Witness ==
    \E i \in DOMAIN calls :
        /\ Done(i)
        /\ ~calls[i].remote.ok
        /\ calls[i].invocations = 1

\* the remote analysis of a call inside MultiLayerStrategy failed
FailedInMultiLayer(i) ==
    /\ InMultiLayer(i) /\ Done(i)
    /\ calls[i].llm # "not called"
    /\ ~calls[i].remote.ok

\* C24: a failed analysis is never cached: when the LLM tier fails inside
\* MultiLayerStrategy.analyze_content the call raises and leaves the cache as
\* it was, so a later call with the same (content, age_category) is a cache
\* miss and is not served what the failed call left.
C24_FailedAnalysisNotCached ==
    \A i \in DOMAIN calls :
        FailedInMultiLayer(i) =>
            /\ calls[i].raised
            /\ IsNone(calls[i].ml)
            /\ CacheKey(calls[i].content, calls[i].user_context) \in
                   DOMAIN instances[calls[i].inst].cache =>
                   \E j \in DOMAIN calls :
                       /\ j # i /\ MultiLayerReturned(j) /\ ~calls[j].hit
                       /\ calls[j].inst = calls[i].inst
                       /\ CacheKey(calls[j].content, calls[j].user_context) =
                          CacheKey(calls[i].content, calls[i].user_context)
            /\ \A j \in DOMAIN calls :
                   (j # i /\ Done(j) /\ calls[j].hit) => calls[j].ret # calls[i].ret

\* C25: every result HybridStrategy.analyze_content returns is tagged
\* hybrid_llm or hybrid_multi, also when the fast filter or the specialized
\* layer decided it or the inner MultiLayerStrategy served it from its cache;
\* and every entry of that inner cache, once the call that created it has
\* returned, is tagged hybrid_multi.
C25_HybridTags ==
    /\ \A i \in DOMAIN calls :
          (ByHybrid(i) /\ StrategyReturned(i)) =>
              /\ calls[i].sret.strategy_used \in {"hybrid_llm", "hybrid_multi"}
              /\ calls[i].snap.strategy_used \in {"hybrid_llm", "hybrid_multi"}
    /\ \A n \in DOMAIN instances :
          instances[n].kind = "hybrid" =>
              \A key \in DOMAIN instances[n].cache :
                  heap[instances[n].cache[key]].strategy_used = "hybrid_multi"

\* a hybrid engine has served from its inner cache a result the fast filter or
\* the specialized layer decided
C25_Witness ==
    \E i \in DOMAIN calls :
        /\ ByHybrid(i) /\ StrategyReturned(i) /\ calls[i].hit
        /\ ~LayersPass(calls[i].content)
        /\ calls[i].sret.strategy_used = "hybrid_multi"

\* C26: with the hybrid strategy active, content that matches a profanity or
\* URL rule of FastFilterLayer is never returned by curate_content with action
\* allow, whatever else the content contains (a word such as 'test' that
\* routes it to the LLM-only path) and whatever the LLM collaborator answers.
C26_FilteredNeverAllowed ==
    \A i \in DOMAIN calls :
        ( /\ ByHybrid(i) /\ Done(i) /\ calls[i].outcome = "returned"
          /\ FastFilterMatches(calls[i].content) ) =>
            calls[i].snap.action # "allow"

\* C27: in every reachable state strategy_type and the active strategy
\* instance agree, so get_strategy_info never reports a strategy_type other
\* than the strategy the next curate_content call will use, also after a
\* switch_strategy call in which constructing the new strategy raised.
C27_TypeAgreesWithInstance ==
    /\ strategy_type = instances[strategy].kind
    /\ GetStrategyInfo.strategy_type = GetStrategyInfo.strategy_name

\* C28: switch_strategy called with a name outside {llm_only, multi_layer,
\* hybrid} raises and leaves the engine unchanged: strategy_type, the active
\* strategy instance and its cache are as before the call, so later
\* curate_content calls behave as if the switch had not been attempted.
C28_InvalidSwitchChangesNothing ==
    [][ (switches' # switches /\ lastSwitch'.name \notin StrategyNames) =>
            /\ ~lastSwitch'.returned
            /\ strategy_type' = strategy_type
            /\ strategy' = strategy
            /\ instances' = instances
            /\ heap' = heap
            /\ calls' = calls ]_vars

\* a call dispatched after switch_strategy was given an unknown name has
\* returned from the strategy the engine had before
C28_Witness ==
    \E i \in DOMAIN calls :
        /\ Done(i)
        /\ calls[i].after.name = "fast_only"
        /\ instances[calls[i].inst].kind = calls[i].stype

\* C29: every successful switch_strategy installs a newly constructed strategy
\* with an empty cache, also when the new type is the current one: no decision
\* cached before the switch is served after it, and the first curate_content
\* call for any (content, age_category) after a switch is never a cache hit.
C29_SwitchInstallsFreshCache ==
    /\ [][ (switches' # switches /\ lastSwitch'.returned) =>
              /\ strategy' \notin DOMAIN instances
              /\ instances'[strategy'].kind = lastSwitch'.name
              /\ instances'[strategy'].cache = EmptyMap ]_vars
    /\ [](\A i \in DOMAIN calls :
            calls[i].hit =>
                \E j \in 1..(i - 1) :
                    /\ calls[j].inst = calls[i].inst
                    /\ calls[j].switchesAtDispatch <= calls[i].switchesAtDispatch
                    /\ CacheKey(calls[j].content, calls[j].user_context) =
                       CacheKey(calls[i].content, calls[i].user_context)
                    /\ MultiLayerReturned(j) /\ ~calls[j].hit
                    /\ calls[j].ret = calls[i].ret)

\* after a switch to the type the engine already had, a call whose key an
\* earlier call had put in the old cache has gone through the layers again
C29_Witness ==
    \E i, j \in DOMAIN calls :
        /\ j < i
        /\ MultiLayerReturned(j) /\ MultiLayerReturned(i)
        /\ calls[i].after.returned
        /\ calls[i].inst # calls[j].inst
        /\ instances[calls[i].inst].kind = instances[calls[j].inst].kind
        /\ CacheKey(calls[j].content, calls[j].user_context) =
           CacheKey(calls[i].content, calls[i].user_context)
        /\ ~calls[i].hit

\* C30: whether MultiLayerStrategy.analyze_content is a cache hit depends only
\* on (content, age_category): a call hits if and only if an earlier call on
\* the same instance with the same content and age_category returned a result;
\* two requests that differ only in jurisdiction (or another field of the
\* context) share one entry, so the second receives the decision made for the
\* first, an LLM-tier decision included, without the LLM being invoked for it.
C30_HitDependsOnContentAndAge ==
    \A i \in DOMAIN calls :
        InMultiLayer(i) =>
            /\ calls[i].hit <=> calls[i].sameBefore
            /\ (Done(i) /\ calls[i].hit) =>
                  /\ calls[i].llm = "not called"
                  /\ calls[i].invocations = 0
                  /\ \E j \in 1..(i - 1) :
                        /\ calls[j].inst = calls[i].inst
                        /\ calls[j].content = calls[i].content
                        /\ calls[j].user_context.age_category =
                           calls[i].user_context.age_category
                        /\ ~calls[j].hit
                        /\ calls[j].ret = calls[i].ret
                        /\ calls[j].ml.action = calls[i].ml.action
                        /\ calls[j].ml.reason = calls[i].ml.reason
                        /\ calls[j].ml.confidence = calls[i].ml.confidence
                        /\ calls[j].ml.safety_score = calls[i].ml.safety_score

\* a request has been served, without the LLM, the LLM-tier decision made for
\* a request of another jurisdiction
C30_Witness ==
    \E i, j \in DOMAIN calls :
        /\ j < i /\ Done(i) /\ Done(j)
        /\ InMultiLayer(i) /\ InMultiLayer(j)
        /\ calls[j].llm = "returned"
        /\ calls[i].hit /\ calls[i].llm = "not called"
        /\ calls[i].ret = calls[j].ret
        /\ calls[i].user_context.jurisdiction # calls[j].user_context.jurisdiction

====
